---- MODULE Spec2Model ----
(***************************************************************************)
(* Depression risk assessment (app.py): a Mamdani fuzzy controller built   *)
(* with skfuzzy and driven by four Streamlit sliders.                      *)
(*                                                                         *)
(* Membership degrees are rationals.  Every slope of every term of the     *)
(* program has a denominator that divides 40 (widths 5, 2, 40, 20), so a   *)
(* degree d is stored as the integer 40*d; min, max and comparisons are    *)
(* exact on that representation.  The crisp risk is the fraction           *)
(* <<numerator, denominator>> the centroid divides out.                    *)
(***************************************************************************)
EXTENDS Integers, Sequences, FiniteSets, TLC

VARIABLES mood, energy, appetite, social,   \* slider values (widget state)
          depression_sim,                   \* the ControlSystemSimulation
          risk_score, risk_category, color, \* locals of main()
          fig, recommendations, error,     \* what the page shows
          pc

vars == <<mood, energy, appetite, social, depression_sim,
          risk_score, risk_category, color, fig, recommendations, error, pc>>

(***************************************************************************)
(* Universes and terms: create_depression_risk_system, lines 11-38.        *)
(***************************************************************************)
One == 5 * 8

Antecedents == {"mood", "energy", "appetite", "social"}

Variables == Antecedents \cup {"risk"}

universe(v) ==
    CASE v = "appetite" -> -5 .. 5
      [] v = "risk"     -> 0 .. 100
      [] OTHER          -> 0 .. 10

TermNames(v) ==
    IF v = "appetite" THEN {"decreased", "normal", "increased"}
                      ELSE {"low", "medium", "high"}

abc(v, t) ==
    IF v = "appetite"
    THEN (CASE t = "decreased" -> <<-5, -5, 0>>
            [] t = "normal"    -> <<-2, 0, 2>>
            [] t = "increased" -> <<0, 5, 5>>)
    ELSE IF v = "risk"
    THEN (CASE t = "low"    -> <<0, 0, 40>>
            [] t = "medium" -> <<30, 50, 70>>
            [] t = "high"   -> <<60, 100, 100>>)
    ELSE (CASE t = "low"    -> <<0, 0, 5>>
            [] t = "medium" -> <<3, 5, 7>>
            [] t = "high"   -> <<5, 10, 10>>)

\* fuzz.trimf without its last statement (y[x == b] = 1).
trimf_nopeak(x, p) ==
    LET a == p[1]  b == p[2]  c == p[3] IN
    IF a # b /\ a < x /\ x < b THEN (One * (x - a)) \div (b - a)
    ELSE IF b # c /\ b < x /\ x < c THEN (One * (c - x)) \div (c - b)
    ELSE 0

\* fuzz.trimf at one point x of the universe: zeros, then the left side when
\* a != b, the right side when b != c, and 1 where x == b.
trimf(x, p) ==
    LET a == p[1]  b == p[2]  c == p[3] IN
    IF x = b THEN One
    ELSE IF a # b /\ a < x /\ x < b THEN (One * (x - a)) \div (b - a)
    ELSE IF b # c /\ b < x /\ x < c THEN (One * (c - x)) \div (c - b)
    ELSE 0

\* The term arrays the factory stores: var[term] = trimf(var.universe, abc).
Membership ==
    [v \in Variables |-> [t \in TermNames(v) |->
        [x \in universe(v) |-> trimf(x, abc(v, t))]]]

\* np.fmin / np.fmax: the & of two terms and the accumulation of a term's cuts.
fmin(a, b) == IF a <= b THEN a ELSE b

fmax(a, b) == IF a >= b THEN a ELSE b

(***************************************************************************)
(* Rule base, lines 41-53.                                                 *)
(***************************************************************************)
Rule(ante, cons) == [antecedent |-> ante, consequent |-> cons, weight |-> 1]

rule1 == Rule(<< <<"mood", "low">>, <<"energy", "low">>, <<"social", "low">> >>, "high")
rule2 == Rule(<< <<"mood", "low">>, <<"energy", "low">>, <<"appetite", "decreased">> >>, "high")
rule3 == Rule(<< <<"mood", "medium">>, <<"energy", "medium">>, <<"social", "medium">> >>, "medium")
rule4 == Rule(<< <<"mood", "high">>, <<"energy", "high">>, <<"social", "high">> >>, "low")
rule5 == Rule(<< <<"mood", "low">>, <<"social", "low">> >>, "high")
rule6 == Rule(<< <<"energy", "low">>, <<"appetite", "decreased">> >>, "high")
rule7 == Rule(<< <<"mood", "medium">>, <<"energy", "medium">>, <<"appetite", "normal">> >>, "medium")
rule8 == Rule(<< <<"social", "medium">>, <<"appetite", "normal">>, <<"mood", "medium">> >>, "medium")
rule9 == Rule(<< <<"mood", "high">>, <<"energy", "medium">>, <<"social", "medium">> >>, "low")

depression_ctrl == <<rule1, rule2, rule3, rule4, rule5, rule6, rule7, rule8, rule9>>

(***************************************************************************)
(* The simulation object, line 54, and what compute() does with it.        *)
(***************************************************************************)
ControlSystemSimulation(ctrl) ==
    [rules            |-> ctrl,
     mf               |-> Membership,
     input            |-> <<>>,
     calculated       |-> {},
     aggregate_firing |-> <<>>,
     activation       |-> <<>>,
     membership_value |-> <<>>,
     output_mf        |-> <<>>,
     output           |-> <<>>,
     raised           |-> ""]

\* No simulation yet (before main() first runs).
NoSimulation ==
    [rules            |-> <<>>,
     mf               |-> <<>>,
     input            |-> <<>>,
     calculated       |-> {},
     aggregate_firing |-> <<>>,
     activation       |-> <<>>,
     membership_value |-> <<>>,
     output_mf        |-> <<>>,
     output           |-> <<>>,
     raised           |-> ""]

\* A factory that hands back the simulation of the previous run, with the
\* term memberships that run accumulated, when there is one.
create_reusing_simulation ==
    IF Len(depression_sim.rules) > 0
    THEN [depression_sim EXCEPT !.calculated = {}, !.output_mf = <<>>,
                                !.output = <<>>, !.raised = ""]
    ELSE ControlSystemSimulation(depression_ctrl)

create_depression_risk_system == ControlSystemSimulation(depression_ctrl)

\* depression_sim.input[...] = ..., lines 134-137.
set_inputs(sim, m, e, a, s) ==
    [sim EXCEPT !.input = [mood |-> m, energy |-> e, appetite |-> a, social |-> s]]

\* fuzz.interp_membership of the crisp input of a clause's variable; slider
\* values are points of the universe, where the interpolation is the sample.
interp_membership(sim, clause) ==
    sim.mf[clause[1]][clause[2]][sim.input[clause[1]]]

\* A term aggregate that combines with or (np.fmax) instead of and.
RECURSIVE or_terms(_, _, _)
or_terms(sim, clauses, k) ==
    IF k = 1 THEN interp_membership(sim, clauses[1])
    ELSE fmax(or_terms(sim, clauses, k - 1), interp_membership(sim, clauses[k]))

\* t1 & t2 & ... & tk, the left-nested TermAggregate of a rule's antecedent.
RECURSIVE and_terms(_, _, _)
and_terms(sim, clauses, k) ==
    IF k = 1 THEN interp_membership(sim, clauses[1])
    ELSE fmin(and_terms(sim, clauses, k - 1), interp_membership(sim, clauses[k]))

\* An accumulation in which the rule computed last overwrites the term's cut.
accumulate_overwrite(value, previous) == value

\* risk.accumulation_method, np.fmax by default.
accumulate(value, previous) == fmax(value, previous)

\* compute_rule: aggregation of the antecedent, activation of the consequent
\* (firing * weight), accumulation into the consequent term's membership.
compute_rule(sim, i) ==
    LET rule   == sim.rules[i]
        firing == and_terms(sim, rule.antecedent, Len(rule.antecedent))
        act    == firing * rule.weight
        t      == rule.consequent
        mv     == sim.membership_value
        new    == IF t \in DOMAIN mv THEN accumulate(act, mv[t]) ELSE act
    IN  [sim EXCEPT !.calculated       = @ \cup {i},
                    !.aggregate_firing = (i :> firing) @@ @,
                    !.activation       = (i :> act) @@ @,
                    !.membership_value = (t :> new) @@ mv]

\* for rule in self.ctrl.rules: self.compute_rule(rule), in list order.
RECURSIVE compute_rules(_, _)
compute_rules(sim, k) ==
    IF k = 0 THEN sim ELSE compute_rule(compute_rules(sim, k - 1), k)

\* find_memberships: each term that has a membership value is cut at it
\* (np.minimum) and the cuts are merged (np.maximum) over zeros.
cut_mf(sim, t, x) ==
    IF t \in DOMAIN sim.membership_value
    THEN fmin(sim.membership_value[t], sim.mf["risk"][t][x])
    ELSE 0

find_memberships(sim) ==
    [x \in universe("risk") |->
        fmax(fmax(fmax(0, cut_mf(sim, "low", x)), cut_mf(sim, "medium", x)),
             cut_mf(sim, "high", x))]

\* mfx.sum() over the samples lo..hi.
RECURSIVE mf_sum(_, _, _)
mf_sum(mfx, lo, hi) ==
    IF lo = hi THEN mfx[lo]
    ELSE LET mid == (lo + hi) \div 2
         IN  mf_sum(mfx, lo, mid) + mf_sum(mfx, mid + 1, hi)

\* One pass of centroid's loop, for the samples x1 = i, x2 = i + 1:
\* <<moment * area, area>>, both times 6 (and in units of 1/One).
segment(mfx, i) ==
    LET x1 == i  x2 == i + 1  y1 == mfx[i]  y2 == mfx[i + 1]  dx == x2 - x1 IN
    IF (y1 = 0 /\ y2 = 0) \/ x1 = x2 THEN <<0, 0>>
    ELSE IF y1 = y2 THEN <<3 * (x1 + x2) * dx * y1, 6 * dx * y1>>
    ELSE IF y1 = 0 THEN <<(2 * dx + 3 * x1) * dx * y2, 3 * dx * y2>>
    ELSE IF y2 = 0 THEN <<(dx + 3 * x1) * dx * y1, 3 * dx * y1>>
    ELSE <<dx * dx * (2 * y2 + y1) + 3 * x1 * dx * (y1 + y2), 3 * dx * (y1 + y2)>>

\* sum_moment_area and sum_area over the segments lo .. hi-1.
RECURSIVE segments(_, _, _)
segments(mfx, lo, hi) ==
    IF hi = lo + 1 THEN segment(mfx, lo)
    ELSE LET mid == (lo + hi) \div 2
             l   == segments(mfx, lo, mid)
             r   == segments(mfx, mid, hi)
         IN  <<l[1] + r[1], l[2] + r[2]>>

\* A centroid that takes the midpoint of a segment as x1 + x2.
centroid_double(mfx) ==
    LET sums == segments(mfx, 0, 100) IN
    IF sums[2] > 0 THEN <<2 * sums[1], sums[2]>> ELSE <<0, 1>>

\* centroid: sum_moment_area / fmax(sum_area, eps), as a fraction; with no
\* area the quotient is 0 / eps.
centroid(mfx) ==
    LET sums == segments(mfx, 0, 100) IN
    IF sums[2] > 0 THEN <<sums[1], sums[2]>> ELSE <<0, 1>>

\* A defuzz without the check of the total area.
defuzz_unchecked(mfx) == [raised |-> "", value |-> centroid(mfx)]

\* fuzz.defuzz(universe, output_mf, 'centroid'): refuses a zero total area,
\* which CrispValueCalculator.defuzz turns into a ValueError.
defuzz(mfx) ==
    IF mf_sum(mfx, 0, 100) = 0
    THEN [raised |-> "Crisp output cannot be calculated", value |-> <<>>]
    ELSE [raised |-> "", value |-> centroid(mfx)]

\* The end of compute(): the consequent is defuzzified into sim.output.
defuzz_output(sim) ==
    LET mfx == find_memberships(sim) @@ <<>>
        d   == defuzz(mfx)
    IN  [sim EXCEPT !.output_mf = mfx, !.output = d.value, !.raised = d.raised]

\* depression_sim.compute(), line 140.
compute(sim) == defuzz_output(compute_rules(sim, Len(sim.rules)))

(***************************************************************************)
(* main(), lines 87-193, and create_gauge_chart, lines 57-84.              *)
(***************************************************************************)
\* score < n for the fraction score and the integer n (denominators are > 0).
Less(score, n) == score[1] < n * score[2]

\* The gauge: the axis, the three colour steps and the value shown.
create_gauge_chart(score) ==
    [value |-> score,
     axis  |-> <<0, 100>>,
     steps |-> << [range |-> <<0, 40>>,   color |-> "lightgreen"],
                  [range |-> <<40, 70>>,  color |-> "yellow"],
                  [range |-> <<70, 100>>, color |-> "salmon"] >>]

NoFigure == [value |-> <<>>, axis |-> <<>>, steps |-> <<>>]

\* A category chain whose second threshold is the start of the "high" term.
category_shifted(score) ==
    IF Less(score, 40) THEN [risk_category |-> "Low", color |-> "green"]
    ELSE IF Less(score, 60) THEN [risk_category |-> "Medium", color |-> "orange"]
    ELSE [risk_category |-> "High", color |-> "red"]

\* if risk_score < 40 ... elif risk_score < 70 ... else, lines 144-152.
category(score) ==
    IF Less(score, 40) THEN [risk_category |-> "Low", color |-> "green"]
    ELSE IF Less(score, 70) THEN [risk_category |-> "Medium", color |-> "orange"]
    ELSE [risk_category |-> "High", color |-> "red"]

\* The recommendation block shown, named by its first bullet, lines 169-189.
recommendation(cat) ==
    IF cat = "Low" THEN "Continue maintaining your current healthy habits"
    ELSE IF cat = "Medium" THEN "Consider consulting with a mental health professional"
    ELSE "Strongly recommended to seek professional help"

\* A new session: the sliders at their defaults, the script not yet run.
Init ==
    /\ mood = 5 /\ energy = 5 /\ appetite = 0 /\ social = 5
    /\ depression_sim = NoSimulation
    /\ risk_score = <<>> /\ risk_category = "" /\ color = ""
    /\ fig = NoFigure /\ recommendations = "" /\ error = ""
    /\ pc = "start"

\* main() up to line 137: the sliders are read, the simulation is created
\* and given the four slider values.
main ==
    /\ pc = "start"
    /\ depression_sim' = set_inputs(create_depression_risk_system,
                                    mood, energy, appetite, social)
    /\ pc' = "compute"
    /\ UNCHANGED <<mood, energy, appetite, social, risk_score, risk_category,
                   color, fig, recommendations, error>>

\* Line 140: depression_sim.compute() returns or raises.
compute_step ==
    /\ pc = "compute"
    /\ depression_sim' = compute(depression_sim)
    /\ pc' = (IF depression_sim'.raised = "" THEN "assess" ELSE "except")
    /\ UNCHANGED <<mood, energy, appetite, social, risk_score, risk_category,
                   color, fig, recommendations, error>>

\* Lines 141-189: the score, its category, the gauge and the recommendations.
assess ==
    /\ pc = "assess"
    /\ risk_score' = depression_sim.output
    /\ risk_category' = category(depression_sim.output).risk_category
    /\ color' = category(depression_sim.output).color
    /\ fig' = create_gauge_chart(depression_sim.output)
    /\ recommendations' = recommendation(risk_category')
    /\ pc' = "idle"
    /\ UNCHANGED <<mood, energy, appetite, social, depression_sim, error>>

\* Lines 191-193: the handler of any exception of the try block.
except ==
    /\ pc = "except"
    /\ error' = "An error occurred: " \o depression_sim.raised
    /\ pc' = "idle"
    /\ UNCHANGED <<mood, energy, appetite, social, depression_sim, risk_score,
                   risk_category, color, fig, recommendations>>

\* The user moves one slider to another value and Streamlit runs the script
\* again: the locals of the last run are unbound and its results leave the
\* page; the simulation object of that run is still what it was.
rerun ==
    /\ pc = "idle"
    /\ \E v \in Antecedents : \E x \in universe(v) :
        /\ x # (CASE v = "mood" -> mood [] v = "energy" -> energy
                  [] v = "appetite" -> appetite [] OTHER -> social)
        /\ mood' = (IF v = "mood" THEN x ELSE mood)
        /\ energy' = (IF v = "energy" THEN x ELSE energy)
        /\ appetite' = (IF v = "appetite" THEN x ELSE appetite)
        /\ social' = (IF v = "social" THEN x ELSE social)
    /\ risk_score' = <<>> /\ risk_category' = "" /\ color' = ""
    /\ fig' = NoFigure /\ recommendations' = "" /\ error' = ""
    /\ pc' = "start"
    /\ UNCHANGED depression_sim

Next == main \/ compute_step \/ assess \/ except \/ rerun

Spec == Init /\ [][Next]_vars

(***************************************************************************)
(* The control system given its rules in any order: compute() takes the    *)
(* rules one at a time, in the order of the list it was built from.        *)
(***************************************************************************)
\* The orderings are explored for the slider values that lie on every
\* OrderStride-th point of each universe, counted from its lower end.
OrderStride == 2

Sampled(v) ==
    LET lo == CHOOSE m \in universe(v) : \A y \in universe(v) : m <= y
    IN  {x \in universe(v) : (x - lo) % OrderStride = 0}

InitOrder ==
    /\ mood \in Sampled("mood") /\ energy \in Sampled("energy")
    /\ appetite \in Sampled("appetite") /\ social \in Sampled("social")
    /\ depression_sim = set_inputs(create_depression_risk_system,
                                   mood, energy, appetite, social)
    /\ risk_score = <<>> /\ risk_category = "" /\ color = ""
    /\ fig = NoFigure /\ recommendations = "" /\ error = ""
    /\ pc = "rules"

\* The next rule of the list, whichever rule that is in this ordering.
compute_rule_step ==
    /\ pc = "rules"
    /\ \E i \in DOMAIN depression_sim.rules \ depression_sim.calculated :
         depression_sim' = compute_rule(depression_sim, i)
    /\ UNCHANGED <<mood, energy, appetite, social, risk_score, risk_category,
                   color, fig, recommendations, error, pc>>

\* After the last rule, the consequent is defuzzified.
defuzz_step ==
    /\ pc = "rules"
    /\ depression_sim.calculated = DOMAIN depression_sim.rules
    /\ depression_sim' = defuzz_output(depression_sim)
    /\ pc' = (IF depression_sim'.raised = "" THEN "assess" ELSE "except")
    /\ UNCHANGED <<mood, energy, appetite, social, risk_score, risk_category,
                   color, fig, recommendations, error>>

NextOrder == compute_rule_step \/ defuzz_step \/ assess \/ except

SpecOrder == InitOrder /\ [][NextOrder]_vars

(***************************************************************************)
(* Control systems of one rule "v is t -> risk is rt" over the program's   *)
(* terms, evaluated at every point of v's universe (the other sliders at   *)
(* their defaults); mood is low -> risk is high is the reference scenario. *)
(***************************************************************************)
SingleRule(v, t, rt) == Rule(<< <<v, t>> >>, rt)

ReferenceRule == SingleRule("mood", "low", "high")

InitRef ==
    /\ \E v \in Antecedents : \E x \in universe(v) :
        /\ mood = (IF v = "mood" THEN x ELSE 5)
        /\ energy = (IF v = "energy" THEN x ELSE 5)
        /\ appetite = (IF v = "appetite" THEN x ELSE 0)
        /\ social = (IF v = "social" THEN x ELSE 5)
        /\ \E t \in TermNames(v) : \E rt \in TermNames("risk") :
             depression_sim =
                 set_inputs(ControlSystemSimulation(<<SingleRule(v, t, rt)>>),
                            mood, energy, appetite, social)
    /\ risk_score = <<>> /\ risk_category = "" /\ color = ""
    /\ fig = NoFigure /\ recommendations = "" /\ error = ""
    /\ pc = "compute"

NextRef == compute_step \/ assess \/ except

SpecRef == InitRef /\ [][NextRef]_vars

(***************************************************************************)
(* Properties.                                                             *)
(***************************************************************************)
Slider(v) ==
    CASE v = "mood" -> mood [] v = "energy" -> energy
      [] v = "appetite" -> appetite [] v = "social" -> social

\* compute() has run for the slider values of the state.
Computed == pc \in {"assess", "except", "idle"}

\* The degree of the slider value of v in the term t of v.
Degree(v, t) == depression_sim.mf[v][t][Slider(v)]

MinOf(S) == CHOOSE m \in S : \A y \in S : m <= y

RuleIds == DOMAIN depression_sim.rules

AntecedentDegrees(i) ==
    LET ante == depression_sim.rules[i].antecedent
    IN  {Degree(ante[k][1], ante[k][2]) : k \in DOMAIN ante}

\* score lies in [lo, hi], for a fraction score.
Within(score, lo, hi) == lo * score[2] <= score[1] /\ score[1] <= hi * score[2]

NoAggregate == \A x \in universe("risk") : depression_sim.output_mf[x] = 0

\* C1: the firing strength of every rule is the least degree of its
\* antecedent clauses at the slider values, times the rule's weight, and so
\* lies between 0 and the weight; degrees 0.3 and 0.7 combine to 0.3.
C1_FiringStrengthIsMin ==
    /\ fmin((3 * One) \div 10, (7 * One) \div 10) = (3 * One) \div 10
    /\ Computed =>
        \A i \in RuleIds :
            /\ depression_sim.aggregate_firing[i] = MinOf(AntecedentDegrees(i))
            /\ depression_sim.activation[i]
                 = MinOf(AntecedentDegrees(i)) * depression_sim.rules[i].weight
            /\ depression_sim.activation[i] >= 0
            /\ depression_sim.activation[i] <= depression_sim.rules[i].weight * One

\* Rule 5 (mood low 0.6, social low 0.4) has fired with strength 0.4.
C1_Witness ==
    /\ pc = "idle"
    /\ Degree("mood", "low") = 24 /\ Degree("social", "low") = 16
    /\ depression_sim.activation[5] = 16

\* The greatest, over the rules 1..k, of min(firing strength of the rule,
\* membership of x in the rule's consequent term).
RECURSIVE MaxOfClipped(_, _)
MaxOfClipped(x, k) ==
    IF k = 0 THEN 0
    ELSE fmax(MaxOfClipped(x, k - 1),
              fmin(depression_sim.activation[k],
                   depression_sim.mf["risk"][depression_sim.rules[k].consequent][x]))

\* C2: at every sample x of the risk universe the aggregate is the greatest,
\* over the nine rules, of min(firing strength, membership of x in the rule's
\* consequent term); it is 0 everywhere when no rule fires.
C2_AggregateIsMaxMin ==
    pc = "idle" =>
        /\ \A x \in universe("risk") :
             depression_sim.output_mf[x] = MaxOfClipped(x, Len(depression_sim.rules))
        /\ (\A i \in RuleIds : depression_sim.activation[i] = 0) => NoAggregate

\* Rules 1 and 6, both for risk high, have fired with different strengths,
\* the later one weaker, and the aggregate at 100 is the stronger one.
C2_Witness ==
    /\ pc = "idle"
    /\ depression_sim.activation[1] > depression_sim.activation[6]
    /\ depression_sim.activation[6] > 0
    /\ depression_sim.output_mf[100] = depression_sim.activation[1]

\* C3: when the aggregate is 0 at every sample, defuzzification raises and
\* main() ends in its handler: an error is shown and no score, category,
\* gauge or recommendation.
C3_EmptyAggregateIsAnError ==
    (Computed /\ NoAggregate) =>
        /\ depression_sim.raised # ""
        /\ depression_sim.output = <<>>
        /\ pc # "assess"
        /\ risk_score = <<>> /\ risk_category = "" /\ color = ""
        /\ fig = NoFigure /\ recommendations = ""
        /\ pc = "idle" => error # ""

C3_Witness ==
    /\ pc = "idle" /\ NoAggregate /\ error # ""
    /\ mood = 5 /\ energy = 0

\* C4: whatever the order of the nine rules, the aggregate at every sample
\* and the crisp risk are those of the order of the listing.
C4_OrderIndependent ==
    Computed =>
        LET listed == compute(set_inputs(ControlSystemSimulation(depression_ctrl),
                                         mood, energy, appetite, social))
        IN  /\ depression_sim.output_mf = listed.output_mf
            /\ depression_sim.output = listed.output
            /\ depression_sim.raised = listed.raised

\* Four rules for risk high have fired, with two different strengths.
C4_Witness ==
    /\ pc = "idle" /\ risk_score # <<>>
    /\ depression_sim.activation[1] > 0
    /\ depression_sim.activation[2] > depression_sim.activation[1]
    /\ depression_sim.activation[5] > 0
    /\ depression_sim.activation[6] > depression_sim.activation[5]

\* C5: in the system of the single rule mood is low -> risk is high, mood 0
\* gives a risk between 70 and 90 and mood 10 gives the error and no risk.
C5_ReferenceScenario ==
    (pc = "idle" /\ depression_sim.rules = <<ReferenceRule>>) =>
        /\ mood = 0 => (error = "" /\ risk_score # <<>> /\ Within(risk_score, 70, 90))
        /\ mood = 10 => (error # "" /\ risk_score = <<>>
                         /\ depression_sim.activation[1] = 0)

C5_Witness ==
    /\ pc = "idle" /\ depression_sim.rules = <<ReferenceRule>>
    /\ mood = 0 /\ risk_score # <<>>

\* C6: every term array the factory builds is within [0, 1], is 0 left of a
\* and right of c, is 1 at b, does not fall from a sample to the next on
\* [a, b] and does not rise on [b, c]; the shoulders (a = b or b = c) are 1
\* at the shared end.
C6_Triangular ==
    pc = "compute" =>
        \A v \in Variables : \A t \in TermNames(v) :
            LET y == depression_sim.mf[v][t]
                a == abc(v, t)[1]  b == abc(v, t)[2]  c == abc(v, t)[3]
            IN  /\ a <= b /\ b <= c
                /\ DOMAIN y = universe(v)
                /\ y[b] = One
                /\ \A x \in universe(v) :
                    /\ 0 <= y[x] /\ y[x] <= One
                    /\ (x < a \/ x > c) => y[x] = 0
                    /\ (a <= x /\ x + 1 <= b) => y[x] <= y[x + 1]
                    /\ (b <= x /\ x + 1 <= c) => y[x] >= y[x + 1]

\* The arrays are built, with both shoulders at 1 on the end of the universe.
C6_Witness ==
    /\ pc = "compute"
    /\ Len(depression_sim.rules) = 9
    /\ depression_sim.mf["mood"]["low"][0] = One
    /\ depression_sim.mf["risk"]["high"][100] = One
    /\ depression_sim.mf["appetite"]["decreased"][-5] = One

\* C7: what a run of main() ends with is what the evaluation of a new
\* simulation gives for the four slider values of that run, whatever the runs
\* before it were, errors included; the rules and terms are never changed.
C7_HistoryIndependent ==
    pc = "idle" =>
        LET new == compute(set_inputs(ControlSystemSimulation(depression_ctrl),
                                      mood, energy, appetite, social))
        IN  /\ risk_score = new.output
            /\ (error = "") = (new.raised = "")
            /\ depression_sim.membership_value = new.membership_value
            /\ depression_sim.rules = depression_ctrl
            /\ depression_sim.mf = Membership

\* A failed run is over and the next run, for other slider values, has begun.
C7_Witness ==
    /\ pc = "start"
    /\ depression_sim.raised # ""
    /\ \E v \in Antecedents : depression_sim.input[v] # Slider(v)

\* C8: the rule base does not cover the slider ranges: where mood is high
\* only (no degree in low or medium), energy is low only and appetite has no
\* degree in decreased, every rule has firing strength 0 and the aggregate
\* is empty.
C8_UncoveredInputs ==
    (/\ Computed
     /\ Degree("mood", "low") = 0 /\ Degree("mood", "medium") = 0
     /\ Degree("energy", "medium") = 0 /\ Degree("energy", "high") = 0
     /\ Degree("appetite", "decreased") = 0) =>
        /\ \A i \in RuleIds : depression_sim.activation[i] = 0
        /\ NoAggregate
        /\ depression_sim.raised # ""

C8_Witness ==
    /\ pc = "idle" /\ mood = 10 /\ energy = 0 /\ appetite = 0 /\ social = 5
    /\ \A i \in RuleIds : depression_sim.activation[i] = 0
    /\ error # ""

\* C9: whenever a rule fires with positive strength a crisp risk is produced,
\* and every crisp risk produced lies in [0, 100], the axis of the gauge.
C9_ScoreInUniverse ==
    /\ (pc = "idle" /\ \E i \in RuleIds : depression_sim.activation[i] > 0) =>
           risk_score # <<>>
    /\ risk_score # <<>> =>
           /\ risk_score[2] > 0
           /\ Within(risk_score, 0, 100)
           /\ Within(risk_score, fig.axis[1], fig.axis[2])

\* A risk of at least 85 is produced.
C9_Witness ==
    /\ pc = "idle" /\ risk_score # <<>>
    /\ Within(risk_score, 85, 100)

\* C10: a crisp risk gets exactly one category: Low below 40, Medium from 40
\* to below 70, High from 70; the recommendations are those of the category,
\* and the category is the gauge step whose range holds the risk.
C10_Category ==
    risk_score # <<>> =>
        /\ risk_category \in {"Low", "Medium", "High"}
        /\ (risk_category = "Low") = Less(risk_score, 40)
        /\ (risk_category = "Medium") = (~Less(risk_score, 40) /\ Less(risk_score, 70))
        /\ (risk_category = "High") = ~Less(risk_score, 70)
        /\ recommendations = recommendation(risk_category)
        /\ color = (CASE risk_category = "Low" -> "green"
                       [] risk_category = "Medium" -> "orange"
                       [] OTHER -> "red")
        /\ Len(fig.steps) = 3
        /\ \A k \in 1..3 :
             (risk_category = <<"Low", "Medium", "High">>[k]) =
                 (/\ ~Less(risk_score, fig.steps[k].range[1])
                  /\ (Less(risk_score, fig.steps[k].range[2])
                      \/ (k = 3 /\ Within(risk_score, 70, fig.steps[k].range[2]))))

\* A risk of at least 60 and below 70 is shown as Medium.
C10_Witness ==
    /\ pc = "idle" /\ risk_score # <<>>
    /\ ~Less(risk_score, 60) /\ Less(risk_score, 70)
    /\ risk_category = "Medium"
    /\ recommendations = "Consider consulting with a mental health professional"

====
